---- MODULE Spec2Model ----
(***************************************************************************)
(* Model of the billing backend of My_Dotts_Backend (src/server.js, its    *)
(* later copy src/unnamed/part_000, and src/src/routes/stripe.js).         *)
(*                                                                         *)
(* The record store holds two tables, profiles and subscriptions; the      *)
(* billing provider holds customers and sessions.  Every HTTP request is   *)
(* an asynchronous handler: it runs synchronously up to each await, and    *)
(* the awaited store or provider call takes effect atomically.  A request  *)
(* slot of proc is one such handler with its local variables and its       *)
(* position (pc).                                                          *)
(*                                                                         *)
(* The route guard RequireAgeAccepted of src/src/index.js is a component   *)
(* of the front end: guard is its state and its pending profile lookups,   *)
(* terms the hasAcceptedTerms column of profiles.                          *)
(***************************************************************************)
EXTENDS Naturals, Sequences, FiniteSets, TLC

VARIABLES profiles, subscriptions, customers, sessions, proc, nreq, hist, env,
          guard, terms

vars == <<profiles, subscriptions, customers, sessions, proc, nreq, hist, env,
          guard, terms>>

(***************************************************************************)
(* Bounds of the model.                                                    *)
(***************************************************************************)
\* request slots that can be in flight together
NProcs == 2
\* requests received in one behaviour when they are handled one at a time
MaxRequests == 3
\* requests received in one behaviour when they may overlap
MaxOverlapping == 2
\* customers the provider can hold
MaxCustomers == 2
\* completed requests the history remembers
HistLen == 2
\* changes of the signed-in user the route guard sees while mounted
MaxChanges == 3

Procs == 1..NProcs

(***************************************************************************)
(* Values.  Null is JavaScript's null (and SQL NULL), Undef is undefined   *)
(* (a field the payload does not carry).                                   *)
(***************************************************************************)
Null == "<null>"
Undef == "<undefined>"

\* rows of the profiles table
Users == {"u1", "u2"}
\* a user identifier no profile row has
Ghost == "ghost"
\* metadata.userId of a checkout session / userId of a request body
Tokens == Users \cup {Ghost, Undef}
UserIds == Users \cup {Ghost}

Cus(n) == "cus_" \o ToString(n)
CustomerIds == {Cus(n) : n \in 1..MaxCustomers}
SubIds == {"sub_1"}
PriceIds == {"price_1"}
Statuses == {"active", "trialing", "canceled"}
\* items.data[0].price.id and current_period_end (in seconds) of the
\* subscriptions delivered; Undef and 0 are a payload that carries neither
Items == {<<Undef, 0>>, <<"price_1", 1>>}

\* JavaScript truthiness of the values used here
Truthy(x) == x \notin {Null, Undef, ""}

\* String(x)
Str(x) == IF x = Null THEN "null" ELSE IF x = Undef THEN "undefined" ELSE x

\* new Date(sec * 1000).toISOString(), kept as the millisecond count it prints
ToISOString(sec) == "iso:" \o ToString(sec * 1000)

\* sub.current_period_end ? new Date(...).toISOString() : null
CurrentPeriodEnd(sec) == IF sec = 0 THEN Null ELSE ToISOString(sec)

\* sub.items?.data?.[0]?.price?.id || null
PriceOf(price) == IF Truthy(price) THEN price ELSE Null

\* a plan that does not look at the status
AlwaysPremium(status) == "premium"

\* status === 'active' ? 'premium' : 'free'
PlanFor(status) == IF status = "active" THEN "premium" ELSE "free"

(***************************************************************************)
(* Configuration: the environment variables the process was started with. *)
(* env never changes after the start.                                      *)
(***************************************************************************)
SecretKey == "STRIPE_SECRET_KEY"
WebhookSecret == "STRIPE_WEBHOOK_SECRET"
PriceMonthly == "STRIPE_PRICE_MONTHLY"
PriceAnnual == "STRIPE_PRICE_ANNUAL"
EnvNames == {SecretKey, WebhookSecret, PriceMonthly, PriceAnnual}

\* the value of an environment variable: a string when set, else undefined
Env(name) == IF name \in env THEN "set:" \o name ELSE Undef

\* req.body.plan of the later revision and of the router
Plans == {"monthly", "annual"}

\* plan === 'annual' ? STRIPE_PRICE_ANNUAL : STRIPE_PRICE_MONTHLY
PriceFor(plan) == IF plan = "annual" THEN Env(PriceAnnual) ELSE Env(PriceMonthly)

\* the checks at the start of the process: without STRIPE_SECRET_KEY it exits
Booted == SecretKey \in env

\* constructEvent(body, sig, secret) returns the event only for a signature
\* made with the secret: with no secret it throws for every request
CanVerify == WebhookSecret \in env

(***************************************************************************)
(* Events the webhook receives.                                            *)
(***************************************************************************)
CheckoutCompleted == "checkout.session.completed"
SubscriptionCreated == "customer.subscription.created"
SubscriptionUpdated == "customer.subscription.updated"
SubscriptionDeleted == "customer.subscription.deleted"
InvoicePaid == "invoice.paid"

Event(t, u, s, c, st, pr, pe) ==
  [type |-> t, userId |-> u, subscription |-> s, customer |-> c,
   status |-> st, price |-> pr, period |-> pe]

NoEvent == Event("none", Undef, Undef, Undef, Undef, Undef, 0)
\* the history's entry for a checkout or portal request
RequestMark == Event("request", Undef, Undef, Undef, Undef, Undef, 0)

CheckoutEvents ==
  {Event(CheckoutCompleted, u, s, c, Undef, Undef, 0) :
     u \in Tokens, s \in SubIds, c \in CustomerIds}

UpsertEvents ==
  {Event(t, Undef, s, c, st, it[1], it[2]) :
     t \in {SubscriptionCreated, SubscriptionUpdated}, s \in SubIds,
     c \in CustomerIds, st \in Statuses, it \in Items}

DeletedEvents ==
  {Event(SubscriptionDeleted, Undef, s, c, "canceled", Undef, 0) :
     s \in SubIds, c \in CustomerIds}

OtherEvents == {Event(InvoicePaid, Undef, Undef, Cus(1), Undef, Undef, 0)}

\* recognized events whose payload lacks a field the handler reads: a
\* checkout session with no subscription and no customer, a subscription
\* with no status
MalformedEvents ==
  {Event(CheckoutCompleted, "u1", Undef, Undef, Undef, Undef, 0),
   Event(SubscriptionUpdated, Undef, "sub_1", Cus(1), Undef, Undef, 0)}

Events ==
  CheckoutEvents \cup UpsertEvents \cup DeletedEvents \cup OtherEvents
    \cup MalformedEvents

(***************************************************************************)
(* Outcomes of an awaited call.  The store client resolves with            *)
(* {data, error}: "error" is a failed call whose error object the code     *)
(* receives; "throw" is a call whose promise rejects.  The provider client *)
(* rejects on every failure.                                               *)
(***************************************************************************)
Outcomes == {"ok", "error", "throw"}
OkOnly == {"ok"}
ProviderOutcomes(O) == O \ {"error"}

(***************************************************************************)
(* The record store.  profiles has one row per user, subscriptions is kept *)
(* as the rows of each user_id in insertion order.  The code relies on the *)
(* store for nothing but the conflict target of its upsert: a row is       *)
(* accepted for any user_id, also one no profile has.                      *)
(***************************************************************************)
Columns == {"stripe_customer_id", "stripe_subscription_id", "price_id", "status",
            "current_period_end"}

\* a new row of subscriptions: the columns given, NULL for the others
NewRow(cols) == [f \in Columns |-> IF f \in DOMAIN cols THEN cols[f] ELSE Null]

\* ON CONFLICT DO UPDATE: the columns given replace the row's
MergeRow(old, cols) == [f \in Columns |-> IF f \in DOMAIN cols THEN cols[f] ELSE old[f]]

\* a column whose JavaScript value is undefined is not serialised
Sent(cols) == [f \in {g \in DOMAIN cols : cols[g] # Undef} |-> cols[f]]

\* an insert that never looks for the row of the same user_id
InsertRow(rows, cols) == Append(rows, NewRow(Sent(cols)))

\* supabase.from('subscriptions').upsert(cols, { onConflict: 'user_id' }) on
\* the rows of one user_id
UpsertRow(rows, cols) ==
  IF rows = <<>> THEN <<NewRow(Sent(cols))>>
  ELSE [i \in DOMAIN rows |-> MergeRow(rows[i], Sent(cols))]

\* a delete of the rows of one user_id
DeleteRows(rows, cols) == <<>>

\* supabase.from('subscriptions').update(cols).eq('user_id', id) on the rows
\* of one user_id
UpdateRows(rows, cols) == [i \in DOMAIN rows |-> MergeRow(rows[i], Sent(cols))]

\* supabase.from('profiles').select(...).eq('id', userId).single()
ProfileById(userId) == IF userId \in Users THEN userId ELSE Null

\* supabase.from('profiles').select('id').eq('stripe_customer_id', c).single():
\* the one matching row; no row, or several, is an error with data null
ProfileByCustomer(c) ==
  LET hits == {u \in Users : profiles[u].stripe_customer_id = c}
  IN IF Truthy(c) /\ Cardinality(hits) = 1 THEN CHOOSE u \in hits : TRUE ELSE Null

\* an update with no filter on id: the column is set on every profile
UpdateEveryProfile(id, col, v) == [u \in Users |-> [profiles[u] EXCEPT ![col] = v]]

\* a write that replaces the profile's row by the column given
ReplaceProfile(id, col, v) ==
  IF id \in Users
  THEN [profiles EXCEPT ![id] = [[stripe_customer_id |-> Null, plan |-> "free"]
                                   EXCEPT ![col] = v]]
  ELSE profiles

\* supabase.from('profiles').update({ [col]: v }).eq('id', id)
UpdateProfile(id, col, v) ==
  IF id \in Users THEN [profiles EXCEPT ![id][col] = v] ELSE profiles

(***************************************************************************)
(* Request slots.                                                          *)
(***************************************************************************)
Slot(pc, kind, userId, ev, user, customerId, code, fault, sigOk) ==
  [pc |-> pc, kind |-> kind, userId |-> userId, ev |-> ev, user |-> user,
   customerId |-> customerId, code |-> code, fault |-> fault, sigOk |-> sigOk,
   priceId |-> Undef, plan |-> Undef, email |-> Undef]

Idle == Slot("idle", "none", Undef, NoEvent, Null, Undef, 0, "none", FALSE)

InFlight(p) == proc[p].pc \notin {"idle", "done"}
Quiet == \A p \in Procs : ~InFlight(p)

\* a request takes the first free slot; conc = FALSE admits it only when no
\* other request is in flight
CanStart(p, conc) ==
  /\ ~InFlight(p)
  /\ \A q \in Procs : q < p => InFlight(q)
  /\ nreq < (IF conc THEN MaxOverlapping ELSE MaxRequests)
  /\ conc \/ Quiet

\* the history of completed requests: the event, the user it was applied
\* to, the answer, and whether a call made for it failed
Remember(h, ev, user, code, fault) ==
  LET h2 == Append(h, [ev |-> ev, user |-> user, code |-> code, fault |-> fault])
  IN IF Len(h2) > HistLen THEN Tail(h2) ELSE h2

\* the slot answers the request
Respond(p, code, fault) ==
  [proc EXCEPT ![p].pc = "done", ![p].code = code, ![p].fault = fault,
               ![p].ev = NoEvent, ![p].user = Null]

\* the order in which the users already linked at the start were linked
Rank(u) == IF u = "u1" THEN 1 ELSE 2
LinkOf(linked, u) == Cus(Cardinality({v \in linked : Rank(v) <= Rank(u)}))

\* The service starts with every profile on the free plan and no subscription
\* row; a profile may already hold the customer an earlier request created.
InitStore ==
  /\ \E linked \in SUBSET Users :
       /\ profiles = [u \in Users |->
            [stripe_customer_id |-> IF u \in linked THEN LinkOf(linked, u) ELSE Null,
             plan |-> "free"]]
       /\ customers = {[id |-> LinkOf(linked, u), supabase_user_id |-> u] : u \in linked}
  /\ subscriptions = [u \in UserIds |-> <<>>]
  /\ sessions = {}
  /\ proc = [p \in Procs |-> Idle]
  /\ nreq = 0
  /\ hist = <<>>

\* the state of RequireAgeAccepted: the user of useAuth(), the two
\* useState cells, whether the effect of the last render has yet to run, the
\* profile lookups awaited, the users whose flag a lookup has read as true,
\* and the number of user changes so far
Guard(user, loading, ok, effect, lookups, read, changes) ==
  [user |-> user, loading |-> loading, ok |-> ok, effect |-> effect,
   lookups |-> lookups, read |-> read, changes |-> changes]

\* the route guard is not mounted
NoGuard == Guard(Null, TRUE, FALSE, FALSE, <<>>, {}, 0)

InitNoGuard == guard = NoGuard /\ terms = [u \in Users |-> FALSE]

\* the service started with every environment variable set
Init == InitStore /\ env = EnvNames /\ InitNoGuard

\* the service started with any of them missing
InitConfig == InitStore /\ env \in SUBSET EnvNames /\ InitNoGuard

(***************************************************************************)
(* POST /stripe/create-checkout-session and /stripe/create-portal-session  *)
(* with getOrCreateStripeCustomer.                                         *)
(***************************************************************************)
\* the handler up to its first await: the 400 for a missing identifier, or
\* the call of getOrCreateStripeCustomer, which awaits the profile
StartCheckout(p, conc) ==
  /\ Booted
  /\ CanStart(p, conc)
  /\ \E userId \in Tokens, priceId \in PriceIds \cup {Undef} :
       IF ~Truthy(userId) \/ ~Truthy(priceId)
       THEN /\ proc' = [proc EXCEPT ![p] =
                 [Slot("done", "checkout", userId, NoEvent, Null, Undef, 400, "none", FALSE)
                    EXCEPT !.priceId = priceId]]
            /\ hist' = Remember(hist, RequestMark, Null, 400, "none")
       ELSE /\ proc' = [proc EXCEPT ![p] =
                 [Slot("select", "checkout", userId, RequestMark, Null, Undef, 0, "none", FALSE)
                    EXCEPT !.priceId = priceId]]
            /\ hist' = hist
  /\ nreq' = nreq + 1
  /\ UNCHANGED <<profiles, subscriptions, customers, sessions, env, guard, terms>>

StartPortal(p, conc) ==
  /\ Booted
  /\ CanStart(p, conc)
  /\ \E userId \in Tokens :
       IF ~Truthy(userId)
       THEN /\ proc' = [proc EXCEPT ![p] =
                 Slot("done", "portal", userId, NoEvent, Null, Undef, 400, "none", FALSE)]
            /\ hist' = Remember(hist, RequestMark, Null, 400, "none")
       ELSE /\ proc' = [proc EXCEPT ![p] =
                 Slot("select", "portal", userId, RequestMark, Null, Undef, 0, "none", FALSE)]
            /\ hist' = hist
  /\ nreq' = nreq + 1
  /\ UNCHANGED <<profiles, subscriptions, customers, sessions, env, guard, terms>>

\* the catch of a request handler: 500
Fail(p) ==
  /\ proc' = Respond(p, 500, "throw")
  /\ hist' = Remember(hist, proc[p].ev, proc[p].user, 500, "throw")

\* a failed store call whose error the code does not look at
Noted(p, o) == IF o = "error" THEN "error" ELSE proc[p].fault

\* getOrCreateStripeCustomer: the profile is read; a stored customer is
\* returned, otherwise one is to be created
SelectProfile(p, O) ==
  /\ proc[p].pc = "select"
  /\ \E o \in O :
       IF o = "throw"
       THEN Fail(p)
       ELSE LET profile == IF o = "ok" THEN ProfileById(proc[p].userId) ELSE Null
                stored == IF profile = Null THEN Null
                          ELSE profiles[profile].stripe_customer_id
            IN /\ proc' = [proc EXCEPT
                    ![p].pc = IF Truthy(stored) THEN "session" ELSE "create",
                    ![p].customerId = IF Truthy(stored) THEN stored ELSE Undef,
                    ![p].fault = Noted(p, o)]
               /\ hist' = hist
  /\ UNCHANGED <<profiles, subscriptions, customers, sessions, nreq, env, guard, terms>>

\* getOrCreateStripeCustomer: stripe.customers.create
CreateCustomer(p, O) ==
  /\ proc[p].pc = "create"
  /\ \E o \in ProviderOutcomes(O) :
       IF o = "throw"
       THEN Fail(p) /\ customers' = customers
       ELSE /\ Cardinality(customers) < MaxCustomers
            /\ LET id == Cus(Cardinality(customers) + 1)
               IN /\ customers' = customers \cup
                       {[id |-> id, supabase_user_id |-> proc[p].userId]}
                  /\ proc' = [proc EXCEPT ![p].pc = "update", ![p].customerId = id]
            /\ hist' = hist
  /\ UNCHANGED <<profiles, subscriptions, sessions, nreq, env, guard, terms>>

\* getOrCreateStripeCustomer: the new customer is saved on the profile and
\* returned, whether or not the update took effect
SaveCustomer(p, O) ==
  /\ proc[p].pc = "update"
  /\ \E o \in O :
       IF o = "throw"
       THEN Fail(p) /\ profiles' = profiles
       ELSE /\ profiles' = IF o = "ok"
                            THEN UpdateProfile(proc[p].userId, "stripe_customer_id",
                                               proc[p].customerId)
                            ELSE profiles
            /\ proc' = [proc EXCEPT ![p].pc = "session", ![p].fault = Noted(p, o)]
            /\ hist' = hist
  /\ UNCHANGED <<subscriptions, customers, sessions, nreq, env, guard, terms>>

\* stripe.checkout.sessions.create / stripe.billingPortal.sessions.create
\* and the answer with the session's url
CreateSession(p, O) ==
  /\ proc[p].pc = "session"
  /\ \E o \in ProviderOutcomes(O) :
       IF o = "throw"
       THEN Fail(p) /\ sessions' = sessions
       ELSE /\ sessions' = sessions \cup
                 {[mode |-> proc[p].kind, customer |-> proc[p].customerId]}
            /\ proc' = Respond(p, 200, proc[p].fault)
            /\ hist' = Remember(hist, proc[p].ev, proc[p].user, 200, proc[p].fault)
  /\ UNCHANGED <<profiles, subscriptions, customers, nreq, env, guard, terms>>

(***************************************************************************)
(* POST /stripe/webhook (src/server.js; /api/stripe/webhook in part_000).  *)
(***************************************************************************)
\* a switch whose last case has no type of its own
FallThrough(type) ==
  IF type = CheckoutCompleted THEN "checkout"
  ELSE IF type \in {SubscriptionUpdated, SubscriptionCreated} THEN "upsert"
  ELSE "deleted"

\* the case of the switch an event type takes
CaseOf(type) ==
  IF type = CheckoutCompleted THEN "checkout"
  ELSE IF type \in {SubscriptionUpdated, SubscriptionCreated} THEN "upsert"
  ELSE IF type = SubscriptionDeleted THEN "deleted"
  ELSE "default"

\* where the handler of a verified event first awaits: the checkout case
\* writes at once when metadata.userId is truthy, the subscription cases look
\* the user up, every other event falls through to the answer
FirstAwait(ev) ==
  IF CaseOf(ev.type) = "checkout" THEN (IF Truthy(ev.userId) THEN "write_sub" ELSE "done")
  ELSE IF CaseOf(ev.type) \in {"upsert", "deleted"} THEN "find"
  ELSE "done"

\* a handler that acknowledges the request whose signature did not verify
IgnoreFailure(kind) ==
  Slot("done", kind, Undef, NoEvent, Null, Undef, 200, "none", FALSE)

\* catch (err) { return res.status(400).send(`Webhook Error: ...`) }: the
\* request whose signature did not verify is answered and nothing else runs
VerificationFailure(kind) ==
  Slot("done", kind, Undef, NoEvent, Null, Undef, 400, "none", FALSE)

\* stripe.webhooks.constructEvent: it throws, and the request is answered
\* 400, or it returns the event, and the switch runs up to its first await
StartWebhook(p, conc) ==
  /\ Booted
  /\ CanStart(p, conc)
  /\ \/ /\ proc' = [proc EXCEPT ![p] = VerificationFailure("webhook")]
        /\ hist' = Remember(hist, NoEvent, Null, 400, "none")
     \/ \E ev \in Events :
          CanVerify /\
          LET pc == FirstAwait(ev)
              user == IF pc = "write_sub" THEN ev.userId ELSE Null
          IN /\ proc' = [proc EXCEPT ![p] =
                  Slot(pc, "webhook", Undef, IF pc = "done" THEN NoEvent ELSE ev,
                       user, Undef, IF pc = "done" THEN 200 ELSE 0, "none", TRUE)]
             /\ hist' = IF pc = "done" THEN Remember(hist, ev, Null, 200, "none") ELSE hist
  /\ nreq' = nreq + 1
  /\ UNCHANGED <<profiles, subscriptions, customers, sessions, env, guard, terms>>

\* an answer in place of the acknowledgment when no profile matches
RejectUnmatched(prof) ==
  IF prof # Null THEN [pc |-> "write_sub", code |-> 0] ELSE [pc |-> "done", code |-> 404]

\* if (prof?.id) { the two writes } break; then res.json({ received: true })
AfterLookup(prof) ==
  IF prof # Null THEN [pc |-> "write_sub", code |-> 0] ELSE [pc |-> "done", code |-> 200]

\* the subscription cases: the profile holding the event's customer
FindUser(p, O) ==
  /\ proc[p].pc = "find"
  /\ \E o \in O :
       IF o = "throw"
       THEN Fail(p)
       ELSE LET prof == IF o = "ok" THEN ProfileByCustomer(proc[p].ev.customer) ELSE Null
                then == AfterLookup(prof)
            IN IF then.pc # "done"
               THEN /\ proc' = [proc EXCEPT ![p].pc = then.pc, ![p].user = prof,
                                            ![p].fault = Noted(p, o)]
                    /\ hist' = hist
               ELSE /\ proc' = Respond(p, then.code, Noted(p, o))
                    /\ hist' = Remember(hist, proc[p].ev, Null, then.code, Noted(p, o))
  /\ UNCHANGED <<profiles, subscriptions, customers, sessions, nreq, env, guard, terms>>

\* the row the checkout case upserts
CheckoutRow(ev) ==
  [stripe_customer_id |-> Str(ev.customer),
   stripe_subscription_id |-> Str(ev.subscription),
   status |-> "active"]

\* the row the created/updated case upserts
UpsertedRow(ev) ==
  [stripe_customer_id |-> ev.customer,
   stripe_subscription_id |-> ev.subscription,
   price_id |-> PriceOf(ev.price),
   status |-> ev.status,
   current_period_end |-> CurrentPeriodEnd(ev.period)]

\* a write that leaves a canceled row as it is
KeepCanceled(ev, rows) ==
  IF rows # <<>> /\ rows[1].status = "canceled" THEN rows
  ELSE IF CaseOf(ev.type) = "checkout" THEN UpsertRow(rows, CheckoutRow(ev))
  ELSE IF CaseOf(ev.type) = "upsert" THEN UpsertRow(rows, UpsertedRow(ev))
  ELSE UpdateRows(rows, [status |-> "canceled"])

\* the first write of a case, on the rows of the user's user_id
SubscriptionWrite(ev, rows) ==
  IF CaseOf(ev.type) = "checkout" THEN UpsertRow(rows, CheckoutRow(ev))
  ELSE IF CaseOf(ev.type) = "upsert" THEN UpsertRow(rows, UpsertedRow(ev))
  ELSE UpdateRows(rows, [status |-> "canceled"])

\* the plan the second write of a case sets on the profile
PlanWrite(ev) ==
  IF CaseOf(ev.type) = "checkout" THEN "premium"
  ELSE IF CaseOf(ev.type) = "upsert" THEN PlanFor(ev.status)
  ELSE "free"

WriteSubscription(p, O) ==
  /\ proc[p].pc = "write_sub"
  /\ \E o \in O :
       IF o = "throw"
       THEN Fail(p) /\ subscriptions' = subscriptions
       ELSE /\ subscriptions' =
                 IF o = "ok"
                 THEN [subscriptions EXCEPT ![proc[p].user] =
                         SubscriptionWrite(proc[p].ev, subscriptions[proc[p].user])]
                 ELSE subscriptions
            /\ proc' = [proc EXCEPT ![p].pc = "write_plan", ![p].fault = Noted(p, o)]
            /\ hist' = hist
  /\ UNCHANGED <<profiles, customers, sessions, nreq, env, guard, terms>>

WritePlan(p, O) ==
  /\ proc[p].pc = "write_plan"
  /\ \E o \in O :
       IF o = "throw"
       THEN Fail(p) /\ profiles' = profiles
       ELSE /\ profiles' = IF o = "ok"
                            THEN UpdateProfile(proc[p].user, "plan", PlanWrite(proc[p].ev))
                            ELSE profiles
            /\ proc' = Respond(p, 200, Noted(p, o))
            /\ hist' = Remember(hist, proc[p].ev, proc[p].user, 200, Noted(p, o))
  /\ UNCHANGED <<subscriptions, customers, sessions, nreq, env, guard, terms>>

(***************************************************************************)
(* POST /webhook of src/src/routes/stripe.js: the signature is verified    *)
(* and the event acknowledged; no case of its switch does anything.        *)
(***************************************************************************)
RouterWebhook(p, conc) ==
  /\ CanStart(p, conc)
  /\ \/ /\ proc' = [proc EXCEPT ![p] = VerificationFailure("router_webhook")]
        /\ hist' = Remember(hist, NoEvent, Null, 400, "none")
     \/ /\ CanVerify
        /\ proc' = [proc EXCEPT ![p] =
             Slot("done", "router_webhook", Undef, NoEvent, Null, Undef, 200, "none", TRUE)]
        /\ hist' = Remember(hist, NoEvent, Null, 200, "none")
  /\ nreq' = nreq + 1
  /\ UNCHANGED <<profiles, subscriptions, customers, sessions, env, guard, terms>>

\* the slot of a request of the later revision or of the router
Slot2(pc, kind, plan, email, customerId, code) ==
  [Slot(pc, kind, Undef, IF pc = "done" THEN NoEvent ELSE RequestMark, Null,
        customerId, code, "none", FALSE)
     EXCEPT !.plan = plan, !.email = email]

\* the answer of a handler of the later revision or of the router
Answer(p, code, fault) ==
  /\ proc' = Respond(p, code, fault)
  /\ hist' = Remember(hist, RequestMark, Null, code, fault)

\* const { plan = 'monthly' } = req.body
DefaultPlan(plan) == IF plan = Undef THEN "monthly" ELSE plan

\* POST /checkout of the router: 400 missing_price_id, or the session is
\* asked of the provider
RouterCheckout(p, conc) ==
  /\ CanStart(p, conc)
  /\ \E body \in Plans \cup {Undef} :
       LET plan == DefaultPlan(body)
       IN IF ~Truthy(PriceFor(plan))
          THEN /\ proc' = [proc EXCEPT ![p] =
                    Slot2("done", "router_checkout", plan, Undef, Undef, 400)]
               /\ hist' = Remember(hist, RequestMark, Null, 400, "none")
          ELSE /\ proc' = [proc EXCEPT ![p] =
                    Slot2("router_session", "router_checkout", plan, Undef, Undef, 0)]
               /\ hist' = hist
  /\ nreq' = nreq + 1
  /\ UNCHANGED <<profiles, subscriptions, customers, sessions, env, guard, terms>>

\* what the provider answers a client made with the process's secret key:
\* without the key every call is rejected
Authenticated(O) == IF SecretKey \in env THEN ProviderOutcomes(O) ELSE {"throw"}

\* stripe.checkout.sessions.create of the router, and its catch: 400
RouterSession(p, O) ==
  /\ proc[p].pc = "router_session"
  /\ \E o \in Authenticated(O) :
       IF o = "throw"
       THEN Answer(p, 400, "throw") /\ sessions' = sessions
       ELSE /\ sessions' = sessions \cup {[mode |-> "checkout", customer |-> Undef]}
            /\ Answer(p, 200, "none")
  /\ UNCHANGED <<profiles, subscriptions, customers, nreq, env, guard, terms>>

(***************************************************************************)
(* The later revision of src/server.js: it keeps no store, verifies the    *)
(* webhook only, and finds the portal's customer by e-mail.                *)
(***************************************************************************)
\* POST /api/stripe/webhook: acknowledged unverified when a secret is not
\* set; otherwise 400 when constructEvent throws, 200 when it returns
Webhook2(p, conc) ==
  /\ CanStart(p, conc)
  /\ \/ /\ ~Truthy(Env(SecretKey)) \/ ~Truthy(Env(WebhookSecret))
        /\ proc' = [proc EXCEPT ![p] =
             Slot("done", "webhook2", Undef, NoEvent, Null, Undef, 200, "none", FALSE)]
        /\ hist' = Remember(hist, NoEvent, Null, 200, "none")
     \/ /\ Truthy(Env(SecretKey)) /\ Truthy(Env(WebhookSecret))
        /\ proc' = [proc EXCEPT ![p] = VerificationFailure("webhook2")]
        /\ hist' = Remember(hist, NoEvent, Null, 400, "none")
     \/ /\ Truthy(Env(SecretKey)) /\ Truthy(Env(WebhookSecret))
        /\ proc' = [proc EXCEPT ![p] =
             Slot("done", "webhook2", Undef, NoEvent, Null, Undef, 200, "none", TRUE)]
        /\ hist' = Remember(hist, NoEvent, Null, 200, "none")
  /\ nreq' = nreq + 1
  /\ UNCHANGED <<profiles, subscriptions, customers, sessions, env, guard, terms>>

\* req.body?.plan || 'monthly'
PlanOr(plan) == IF Truthy(plan) THEN plan ELSE "monthly"

\* getStripe() throws NO_SK without the secret key, createCheckoutSession
\* throws NO_PRICE without the plan's price
CannotCheckout(plan) == ~Truthy(Env(SecretKey)) \/ ~Truthy(PriceFor(plan))

\* POST /api/stripe/checkout up to its await: the catch answers 500
StartCheckout2(p, conc) ==
  /\ CanStart(p, conc)
  /\ \E body \in Plans \cup {Undef} :
       LET plan == PlanOr(body)
       IN IF CannotCheckout(plan)
          THEN /\ proc' = [proc EXCEPT ![p] =
                    Slot2("done", "checkout2", plan, Undef, Undef, 500)]
               /\ hist' = Remember(hist, RequestMark, Null, 500, "none")
          ELSE /\ proc' = [proc EXCEPT ![p] =
                    Slot2("session2", "checkout2", plan, Undef, Undef, 0)]
               /\ hist' = hist
  /\ nreq' = nreq + 1
  /\ UNCHANGED <<profiles, subscriptions, customers, sessions, env, guard, terms>>

\* req.body?.email of a portal request
Emails == {"a@x", Undef}

\* POST /api/stripe/portal up to its await: 500 from getStripe(), 400
\* without an e-mail, or the customer is searched
StartPortal2(p, conc) ==
  /\ CanStart(p, conc)
  /\ \E email \in Emails :
       LET code == IF ~Truthy(Env(SecretKey)) THEN 500
                   ELSE IF ~Truthy(email) THEN 400 ELSE 0
       IN IF code # 0
          THEN /\ proc' = [proc EXCEPT ![p] =
                    Slot2("done", "portal2", Undef, email, Undef, code)]
               /\ hist' = Remember(hist, RequestMark, Null, code, "none")
          ELSE /\ proc' = [proc EXCEPT ![p] =
                    Slot2("search", "portal2", Undef, email, Undef, 0)]
               /\ hist' = hist
  /\ nreq' = nreq + 1
  /\ UNCHANGED <<profiles, subscriptions, customers, sessions, env, guard, terms>>

\* customers.data of stripe.customers.search: the customers of the provider
\* that carry the e-mail, none or one of those it holds
SearchResults == {<<>>} \cup {<<c.id>> : c \in customers}

\* a handler that opens the portal without looking at the search's result
FirstOrNone(data) ==
  IF data = <<>> THEN [pc |-> "session2", customerId |-> Undef, code |-> 0]
  ELSE [pc |-> "session2", customerId |-> data[1], code |-> 0]

\* if (!customers?.data?.length) return res.status(404)...; customerId is
\* customers.data[0].id
FirstOr404(data) ==
  IF data = <<>> THEN [pc |-> "done", customerId |-> Undef, code |-> 404]
  ELSE [pc |-> "session2", customerId |-> data[1], code |-> 0]

\* stripe.customers.search and the 404 of the portal
SearchCustomer(p, O) ==
  /\ proc[p].pc = "search"
  /\ \E o \in ProviderOutcomes(O) :
       IF o = "throw"
       THEN Answer(p, 500, "throw")
       ELSE \E data \in SearchResults :
              LET then == FirstOr404(data)
              IN IF then.pc = "done"
                 THEN Answer(p, then.code, "none")
                 ELSE /\ proc' = [proc EXCEPT ![p].pc = then.pc,
                                              ![p].customerId = then.customerId]
                      /\ hist' = hist
  /\ UNCHANGED <<profiles, subscriptions, customers, sessions, nreq, env, guard, terms>>

\* stripe.checkout.sessions.create / stripe.billingPortal.sessions.create of
\* the later revision, and the catch: 500
CreateSession2(p, O) ==
  /\ proc[p].pc = "session2"
  /\ \E o \in ProviderOutcomes(O) :
       IF o = "throw"
       THEN Answer(p, 500, "throw") /\ sessions' = sessions
       ELSE /\ sessions' = sessions \cup
                 {[mode |-> IF proc[p].kind = "portal2" THEN "portal" ELSE "checkout",
                   customer |-> proc[p].customerId]}
            /\ Answer(p, 200, "none")
  /\ UNCHANGED <<profiles, subscriptions, customers, nreq, env, guard, terms>>

(***************************************************************************)
(* Specifications.  Spec: requests overlap and calls may fail.  SpecOk:    *)
(* requests overlap, no call fails.  SpecSeq: one request at a time, no    *)
(* call fails.  SpecConfig: every handler of the repository, started with  *)
(* any configuration; requests overlap, and the provider calls of the      *)
(* later revision and of the router may fail.                              *)
(***************************************************************************)
Step(p, O) ==
  \/ SelectProfile(p, O)
  \/ CreateCustomer(p, O)
  \/ SaveCustomer(p, O)
  \/ CreateSession(p, O)
  \/ FindUser(p, O)
  \/ WriteSubscription(p, O)
  \/ WritePlan(p, O)

Start(p, conc) ==
  \/ StartCheckout(p, conc)
  \/ StartPortal(p, conc)
  \/ StartWebhook(p, conc)
  \/ RouterWebhook(p, conc)

Next == \E p \in Procs : Start(p, TRUE) \/ Step(p, Outcomes)

NextOk == \E p \in Procs : Start(p, TRUE) \/ Step(p, OkOnly)

NextSeq == \E p \in Procs : Start(p, FALSE) \/ Step(p, OkOnly)

Spec == Init /\ [][Next]_vars

SpecOk == Init /\ [][NextOk]_vars

SpecSeq == Init /\ [][NextSeq]_vars

\* every handler of the repository, started with any configuration
Step2(p, O) ==
  \/ RouterSession(p, O)
  \/ SearchCustomer(p, O)
  \/ CreateSession2(p, O)

Start2(p, conc) ==
  \/ RouterCheckout(p, conc)
  \/ Webhook2(p, conc)
  \/ StartCheckout2(p, conc)
  \/ StartPortal2(p, conc)

NextConfig ==
  \E p \in Procs :
    Start(p, TRUE) \/ Start2(p, TRUE) \/ Step(p, OkOnly) \/ Step2(p, Outcomes)

SpecConfig == InitConfig /\ [][NextConfig]_vars

(***************************************************************************)
(* RequireAgeAccepted (src/src/index.js).                                  *)
(***************************************************************************)
\* useState(true), useState(false): the guard is mounted for any signed-in
\* user or none, over any values of the profiles' flags; the effect of the
\* first render has yet to run
InitGuard ==
  /\ InitStore /\ env = EnvNames
  /\ \E u \in Users \cup {Null} : guard = Guard(u, TRUE, FALSE, TRUE, <<>>, {}, 0)
  /\ terms \in [Users -> BOOLEAN]

\* what the component returns: null while loading, the redirect to /login
\* without a user, the redirect to /age-verification unless ok, else the
\* children
Rendered ==
  IF guard.loading THEN "null"
  ELSE IF guard.user = Null THEN "/login"
  ELSE IF ~guard.ok THEN "/age-verification"
  ELSE "children"

\* useAuth() gives another user (login, logout, switch): the component
\* renders again with the state it has, and the effect on [user] is due
ChangeUser ==
  /\ ~guard.effect
  /\ guard.changes < MaxChanges
  /\ \E u \in (Users \cup {Null}) \ {guard.user} :
       guard' = [guard EXCEPT !.user = u, !.effect = TRUE, !.changes = @ + 1]
  /\ UNCHANGED <<profiles, subscriptions, customers, sessions, proc, nreq, hist,
                 env, terms>>

\* run(): without a user setOk(false), setLoading(false); otherwise the
\* profile of user.id is asked for and awaited
RunEffect ==
  /\ guard.effect
  /\ guard' = IF guard.user = Null
               THEN [guard EXCEPT !.effect = FALSE, !.ok = FALSE, !.loading = FALSE]
               ELSE [guard EXCEPT !.effect = FALSE,
                                  !.lookups = Append(@, guard.user)]
  /\ UNCHANGED <<profiles, subscriptions, customers, sessions, proc, nreq, hist,
                 env, terms>>

\* the sequence without its i-th element
Without(seq, i) == [j \in 1..(Len(seq) - 1) |-> IF j < i THEN seq[j] ELSE seq[j + 1]]

\* { data } of the select: the row's flag, or null when the call failed
LookupData(u, o) == IF o = "ok" THEN <<terms[u]>> ELSE <<>>

\* setOk(data?.hasAcceptedTerms === true); setLoading(false)
SetOk(g, u, data) ==
  [g EXCEPT !.ok = (data # <<>> /\ data[1] = TRUE), !.loading = FALSE]

\* a pending lookup completes, in any order: the continuation of run() sets
\* ok and loading; a rejected promise leaves both as they are
LookupDone ==
  /\ \E i \in DOMAIN guard.lookups, o \in Outcomes :
       LET u == guard.lookups[i]
           data == LookupData(u, o)
           g == [guard EXCEPT !.lookups = Without(@, i),
                              !.read = IF data # <<>> /\ data[1] = TRUE
                                       THEN @ \cup {u} ELSE @]
       IN guard' = IF o = "throw" THEN g ELSE SetOk(g, u, data)
  /\ UNCHANGED <<profiles, subscriptions, customers, sessions, proc, nreq, hist,
                 env, terms>>

NextGuard == ChangeUser \/ RunEffect \/ LookupDone

SpecGuard == InitGuard /\ [][NextGuard]_vars

(***************************************************************************)
(* Properties.                                                             *)
(***************************************************************************)
Last == hist[Len(hist)]
CustomersOf(u) == {c \in customers : c.supabase_user_id = u}
\* the slot answered a checkout or portal request with a session
Served(p) ==
  /\ proc[p].pc = "done"
  /\ proc[p].kind \in {"checkout", "portal"}
  /\ proc[p].code = 200

\* C1: the provider is asked to create a customer for a user at most once,
\* over any interleaving of the checkout and portal requests about that user
\* (checked where no call fails).
C1_OneCustomerPerUser == \A u \in Users : Cardinality(CustomersOf(u)) <= 1

\* C2: once two resolve-or-create-customer calls for the same user have both
\* completed, both have returned the one customer identifier the store holds
\* for that user (checked where no call fails).
C2_BothReturnStored ==
  \A p, q \in Procs :
    (p # q /\ Served(p) /\ Served(q) /\ proc[p].userId = proc[q].userId
       /\ proc[p].userId \in Users)
    => /\ proc[p].customerId = proc[q].customerId
       /\ proc[p].customerId = profiles[proc[p].userId].stripe_customer_id

\* C3: once a profile holds a non-null stripe_customer_id, no step of any
\* request changes it to a different value, also when store calls fail.
C3_CustomerIdImmutable ==
  [][\A u \in Users :
       profiles[u].stripe_customer_id # Null
       => profiles'[u].stripe_customer_id = profiles[u].stripe_customer_id]_vars

\* C4: after a subscription_created or subscription_updated event has been
\* applied to a matched user, the profile's plan is 'premium' when the
\* event's status is 'active' or 'trialing' and 'free' for any other status.
C4_PlanFromStatus ==
  (Quiet /\ hist # <<>> /\ CaseOf(Last.ev.type) = "upsert" /\ Last.user # Null)
  => profiles[Last.user].plan =
       (IF Last.ev.status \in {"active", "trialing"} THEN "premium" ELSE "free")

\* a slot is handling a verified event at an await
Delivering(p) == InFlight(p) /\ proc[p].kind = "webhook"
\* the event was applied: acknowledged, with every call made for it effective
Applied(h) == h.code = 200 /\ h.fault = "none"
\* no entry of the history is a checkout or portal request
OnlyEvents == \A i \in DOMAIN hist : hist[i].ev.type # "request"
\* the one subscriptions row of a user
Record(u) == subscriptions[u][1]

\* C5 (as stated): delivering an already-delivered event again, immediately
\* or after other events have been applied in between, leaves every
\* Subscription Record and plan tier as they were.
C5_RedeliveryAnyTime ==
  [][\A p \in Procs :
       (Delivering(p) /\ OnlyEvents
          /\ \E i \in DOMAIN hist : hist[i].ev = proc[p].ev /\ Applied(hist[i]))
       => UNCHANGED <<subscriptions, profiles>>]_vars

\* C5 (amended): delivering an event again immediately after it was applied,
\* with no other request handled in between or meanwhile, leaves every
\* Subscription Record and plan tier as they were.
C5_ImmediateRedelivery ==
  [][\A p \in Procs :
       (Delivering(p) /\ hist # <<>> /\ Last.ev = proc[p].ev /\ Applied(Last))
       => UNCHANGED <<subscriptions, profiles>>]_vars

\* a subscription event was applied to a user twice in a row
C5_Witness ==
  /\ Quiet /\ Len(hist) = 2
  /\ hist[1] = hist[2] /\ Applied(Last)
  /\ CaseOf(Last.ev.type) = "upsert" /\ Last.user \in Users
  /\ Len(subscriptions[Last.user]) = 1
  /\ Record(Last.user).status = Last.ev.status

\* C6: applying the same checkout_completed event twice in a row yields the
\* Subscription Record and plan tier that applying it once yields: no step of
\* the second application changes either.
C6_CheckoutTwice ==
  [][\A p \in Procs :
       (Delivering(p) /\ CaseOf(proc[p].ev.type) = "checkout"
          /\ hist # <<>> /\ Last.ev = proc[p].ev /\ Applied(Last))
       => UNCHANGED <<subscriptions, profiles>>]_vars

\* a checkout_completed event was applied to a user twice in a row
C6_Witness ==
  /\ Quiet /\ Len(hist) = 2
  /\ hist[1] = hist[2] /\ Applied(Last)
  /\ CaseOf(Last.ev.type) = "checkout" /\ Last.user \in Users
  /\ Len(subscriptions[Last.user]) = 1
  /\ Record(Last.user).status = "active"
  /\ profiles[Last.user].plan = "premium"

\* C7: after checkout_completed with token u, subscription s and customer c
\* is applied, the record of u is active with subscription id s; after
\* subscription_deleted for customer c is then applied, the record of u is
\* canceled and the plan of u is free.
C7_CheckoutThenDeleted ==
  /\ (Quiet /\ hist # <<>> /\ Applied(Last)
        /\ CaseOf(Last.ev.type) = "checkout" /\ Last.ev.userId \in Users)
     => /\ Len(subscriptions[Last.ev.userId]) = 1
        /\ Record(Last.ev.userId).status = "active"
        /\ Record(Last.ev.userId).stripe_subscription_id = Last.ev.subscription
  /\ (Quiet /\ Len(hist) = 2 /\ Applied(hist[1]) /\ Applied(hist[2])
        /\ CaseOf(hist[1].ev.type) = "checkout" /\ hist[1].ev.userId \in Users
        /\ CaseOf(hist[2].ev.type) = "deleted"
        /\ hist[2].ev.customer = hist[1].ev.customer)
     => /\ Len(subscriptions[hist[1].ev.userId]) = 1
        /\ Record(hist[1].ev.userId).status = "canceled"
        /\ profiles[hist[1].ev.userId].plan = "free"

\* C8: a checkout_completed event whose metadata.userId is absent or names no
\* known user is acknowledged and creates or changes no Subscription Record
\* and no profile.
C8_UnknownTokenNoOp ==
  [][\A p \in Procs :
       (Delivering(p) /\ CaseOf(proc[p].ev.type) = "checkout"
          /\ proc[p].ev.userId \notin Users /\ proc'[p] # proc[p])
       => /\ UNCHANGED <<subscriptions, profiles>>
          /\ proc'[p].pc = "done" => proc'[p].code = 200]_vars

\* a webhook slot has answered a request whose signature verified
Answered(p) ==
  /\ proc[p].pc = "done"
  /\ proc[p].kind \in {"webhook", "router_webhook"}
  /\ proc[p].sigOk

\* C9: a verified event whose processing met a store failure is not
\* answered 200.
C9_StoreFailureNot200 ==
  \A p \in Procs : (Answered(p) /\ proc[p].fault # "none") => proc[p].code # 200

\* C10 (as stated): every webhook request whose signature verifies is
\* answered 200.
C10_AlwaysAck == \A p \in Procs : Answered(p) => proc[p].code = 200

\* C10 (amended): every webhook request whose signature verifies is answered
\* 200 unless a call awaited while handling it throws: unrecognized kinds,
\* events that match no user, no-ops and store calls that return an error
\* are all acknowledged.
C10_AckUnlessThrown ==
  \A p \in Procs : (Answered(p) /\ proc[p].fault # "throw") => proc[p].code = 200

\* a subscription event that matched no user has been acknowledged
C10_Witness ==
  \E p \in Procs :
    /\ Answered(p) /\ proc[p].code = 200 /\ proc[p].fault = "none"
    /\ hist # <<>> /\ CaseOf(Last.ev.type) \in {"upsert", "deleted"}
    /\ Last.user = Null /\ Last.code = 200

\* the kinds of request that carry a provider event
WebhookKinds == {"webhook", "router_webhook", "webhook2"}
\* the handler of this kind of request calls constructEvent
Attempted(kind) == kind = "webhook2" => (SecretKey \in env /\ WebhookSecret \in env)
\* a step changes a Subscription Record or a plan
Mutates ==
  \/ subscriptions' # subscriptions
  \/ \E u \in Users : profiles'[u].plan # profiles[u].plan

\* C11: a webhook request whose signature verification fails is answered
\* with a 4xx and its answer changes nothing; and every step of a webhook
\* request that changes a Subscription Record or a plan is a step of a
\* request whose signature had verified.
C11_VerifiedBeforeApply ==
  [][\A p \in Procs :
       (proc'[p] # proc[p] /\ proc'[p].kind \in WebhookKinds)
       => /\ (proc'[p].pc = "done" /\ ~proc'[p].sigOk /\ Attempted(proc'[p].kind))
             => /\ proc'[p].code \in 400..499
                /\ UNCHANGED <<subscriptions, profiles, customers, sessions>>
          /\ Mutates => proc[p].sigOk /\ proc[p].kind = proc'[p].kind]_vars

\* a request whose verification failed was answered 400 while a
\* Subscription Record written for a verified event stands
C11_Witness ==
  \E p \in Procs :
    /\ proc[p].pc = "done" /\ proc[p].kind = "webhook"
    /\ ~proc[p].sigOk /\ proc[p].code = 400
    /\ \E u \in Users : Len(subscriptions[u]) = 1 /\ profiles[u].plan = "premium"

\* C12: after subscription_deleted has been applied for a customer that
\* matches a user, the user has a Subscription Record, its status is
\* 'canceled' and the user's plan is 'free', also when the user had no
\* record before; when no user matches, the event is acknowledged and no
\* step of it changes a record or a profile.
C12_DeletedCancels ==
  /\ [](( Quiet /\ hist # <<>> /\ Applied(Last)
           /\ CaseOf(Last.ev.type) = "deleted" /\ Last.user # Null)
        => /\ Len(subscriptions[Last.user]) = 1
           /\ Record(Last.user).status = "canceled"
           /\ profiles[Last.user].plan = "free")
  /\ [][\A p \in Procs :
          (Delivering(p) /\ CaseOf(proc[p].ev.type) = "deleted"
             /\ proc[p].pc = "find" /\ proc'[p] # proc[p]
             /\ \A u \in Users : profiles[u].stripe_customer_id # proc[p].ev.customer)
          => /\ UNCHANGED <<subscriptions, profiles>>
             /\ proc'[p].pc = "done" /\ proc'[p].code = 200]_vars

\* the two events of the history were applied to the same user: an update
\* with status 'active' and a deletion, at positions i and j
ActiveAndDeleted(i, j) ==
  /\ Quiet /\ Len(hist) = 2
  /\ Applied(hist[1]) /\ Applied(hist[2])
  /\ hist[i].ev.type = SubscriptionUpdated /\ hist[i].ev.status = "active"
  /\ CaseOf(hist[j].ev.type) = "deleted"
  /\ hist[1].user # Null /\ hist[1].user = hist[2].user

\* C13: subscription_updated(status=active) and then subscription_deleted,
\* both applied to the same matched user, leave the record 'canceled'; the
\* same two events in the reverse order leave it 'active'.
C13_OrderDecides ==
  /\ ActiveAndDeleted(1, 2)
     => /\ Len(subscriptions[Last.user]) = 1
        /\ Record(Last.user).status = "canceled"
  /\ ActiveAndDeleted(2, 1)
     => /\ Len(subscriptions[Last.user]) = 1
        /\ Record(Last.user).status = "active"

\* the deletion was applied first and the update after it
C13_Witness ==
  /\ ActiveAndDeleted(2, 1)
  /\ Record(Last.user).status = "active"
  /\ profiles[Last.user].plan = "premium"

\* the types the switch has a case for
Recognized ==
  {CheckoutCompleted, SubscriptionCreated, SubscriptionUpdated, SubscriptionDeleted}
\* the step completes a request, which enters the history
Completes == hist' # hist
Completed == hist'[Len(hist')]

\* C14: an event of a kind outside the four recognized ones is acknowledged
\* with 200, and no step of its request changes a Subscription Record, a
\* profile (its plan or its customer link) or the provider's customers.
C14_UnknownKindNoOp ==
  [][/\ \A p \in Procs :
          (Delivering(p) /\ proc[p].ev.type \notin Recognized /\ proc'[p] # proc[p])
          => UNCHANGED <<subscriptions, profiles, customers>>
     /\ (Completes /\ Completed.ev.type \notin Recognized \cup {"none", "request"})
          => /\ Completed.code = 200
             /\ UNCHANGED <<subscriptions, profiles, customers>>]_vars

\* an unrecognized event was acknowledged while a user is on the premium
\* plan with a Subscription Record and a customer link
C14_Witness ==
  /\ hist # <<>> /\ Last.ev.type = InvoicePaid /\ Last.code = 200
  /\ \E u \in Users :
       /\ profiles[u].plan = "premium" /\ Len(subscriptions[u]) = 1
       /\ profiles[u].stripe_customer_id = Last.ev.customer

\* no profile holds the customer of the event
Unmatched(ev) == \A u \in Users : profiles[u].stripe_customer_id # ev.customer

\* C15: a subscription_created, subscription_updated or
\* subscription_deleted event whose customer no profile holds when it is
\* looked up is acknowledged with 200 by that step, which changes no record.
C15_UnmatchedNoOp ==
  [][\A p \in Procs :
       (Delivering(p) /\ proc[p].pc = "find" /\ proc'[p] # proc[p]
          /\ Unmatched(proc[p].ev))
       => /\ proc'[p].pc = "done" /\ proc'[p].code = 200
          /\ UNCHANGED <<subscriptions, profiles, customers, sessions>>]_vars

\* an update for a customer no profile holds was acknowledged, and another
\* profile holds a customer
C15_Witness ==
  /\ hist # <<>> /\ CaseOf(Last.ev.type) = "upsert" /\ Last.code = 200
  /\ Last.user = Null /\ Unmatched(Last.ev)
  /\ \E u \in Users : profiles[u].stripe_customer_id # Null
  /\ \A u \in UserIds : subscriptions[u] = <<>>

\* C16: a recognized event that lacks an expected field (a checkout session
\* with a user token but no subscription or customer, a subscription with
\* no status) is a non-fatal no-op: it is acknowledged and no step of it
\* creates or changes a Subscription Record or a plan.
C16_MalformedNoOp ==
  [][\A p \in Procs :
       (Delivering(p) /\ proc[p].ev \in MalformedEvents /\ proc'[p] # proc[p])
       => /\ UNCHANGED <<subscriptions, profiles>>
          /\ proc'[p].pc = "done" => proc'[p].code = 200]_vars

\* C17: no step of a checkout-session or portal-session request, the
\* customer resolution it calls included, creates or changes a Subscription
\* Record or a plan, whether its calls succeed or fail.
C17_RequestsLeaveRecords ==
  [][\A p \in Procs :
       (proc'[p] # proc[p] /\ proc'[p].kind \in {"checkout", "portal"})
       => ~Mutates]_vars

\* a checkout or portal request of a premium user with a Subscription Record
\* was served after saving the user's new customer
C17_Witness ==
  \E p \in Procs :
    /\ Served(p) /\ proc[p].userId \in Users
    /\ profiles[proc[p].userId].plan = "premium"
    /\ Len(subscriptions[proc[p].userId]) = 1
    /\ profiles[proc[p].userId].stripe_customer_id = proc[p].customerId
    /\ proc[p].customerId \notin {Record(proc[p].userId).stripe_customer_id}

\* C18: a Subscription Record is never physically removed: once a user has
\* a record, no step of any request leaves the user without one.
C18_NeverRemoved ==
  [][\A u \in UserIds : subscriptions[u] # <<>> => subscriptions'[u] # <<>>]_vars

\* a deletion was applied to a user who had a record: the record is there,
\* canceled
C18_Witness ==
  /\ hist # <<>> /\ Applied(Last)
  /\ CaseOf(Last.ev.type) = "deleted" /\ Last.user \in Users
  /\ Len(subscriptions[Last.user]) = 1
  /\ Record(Last.user).status = "canceled"
  /\ Record(Last.user).stripe_subscription_id \in SubIds

\* the environment variable holding the price of a plan
PriceName(plan) == IF plan = "annual" THEN PriceAnnual ELSE PriceMonthly
\* the configuration the request of a slot cannot be handled without
Needs(s) ==
  IF s.kind \in {"webhook", "router_webhook"} THEN {WebhookSecret}
  ELSE IF s.kind = "webhook2" THEN {SecretKey, WebhookSecret}
  ELSE IF s.kind \in {"checkout2", "router_checkout"} THEN {SecretKey, PriceName(s.plan)}
  ELSE IF s.kind \in {"checkout", "portal", "portal2"} THEN {SecretKey}
  ELSE {}

\* C19: no webhook, checkout or portal request handled while a secret or
\* the price mapping it needs is missing is answered with 200.
C19_ConfigErrorNot200 ==
  \A p \in Procs :
    (proc[p].pc = "done" /\ ~(Needs(proc[p]) \subseteq env)) => proc[p].code # 200

\* the request of the slot lacks an identifier its handler requires
Lacking(s) ==
  \/ s.kind = "checkout" /\ (~Truthy(s.userId) \/ ~Truthy(s.priceId))
  \/ s.kind = "portal" /\ ~Truthy(s.userId)
  \/ s.kind = "portal2" /\ ~Truthy(s.email)

\* C20: a checkout or portal request that lacks a required identifier, or
\* whose customer search finds no customer, is answered with an error in
\* that step, which creates no provider customer and no session and writes
\* no store row.
C20_LackingNoEffect ==
  [][\A p \in Procs :
       (/\ proc'[p] # proc[p]
        /\ \/ Lacking(proc'[p])
           \/ proc[p].pc = "search" /\ ~Truthy(proc'[p].customerId))
       => /\ proc'[p].pc = "done" /\ proc'[p].code \in 400..599
          /\ UNCHANGED <<profiles, subscriptions, customers, sessions>>]_vars

\* a portal request by e-mail was answered 404 while the provider holds a
\* customer, and no session was opened
C20_Witness ==
  \E p \in Procs :
    /\ proc[p].pc = "done" /\ proc[p].kind = "portal2" /\ proc[p].code = 404
    /\ Truthy(proc[p].email)
    /\ customers # {} /\ sessions = {}

\* C21: the route guard renders the children only when there is a current
\* user and a profile lookup has read that user's own hasAcceptedTerms flag
\* as true, across any sequence of user changes and any arrival order of
\* the lookups' responses.
C21_ChildrenOnlyWhenAccepted ==
  Rendered = "children" => (guard.user # Null /\ guard.user \in guard.read)

\* the plan and the Subscription Record of a user agree
Agree(u) == profiles[u].plan = "premium" <=> Record(u).status = "active"

\* C22: in every state in which no webhook delivery is in flight, for every
\* user that has a Subscription Record the plan is 'premium' exactly when
\* the record's status is 'active', with deliveries about the same user
\* processed concurrently and their store calls interleaved in any order.
C22_PlanAgreesWithStatus ==
  (\A p \in Procs : ~Delivering(p))
  => \A u \in Users : subscriptions[u] # <<>> => Agree(u)

\* the plan tier the data model derives from a status
DerivedPlan(status) == IF status \in {"active", "trialing"} THEN "premium" ELSE "free"

\* C23: after subscription_created/subscription_updated events for a
\* matched user processed one after another, the Subscription Record's
\* status, price identifier and period end are those of the last event
\* delivered, and the plan is the tier derived from that last status.
C23_LastWriterWins ==
  (Quiet /\ hist # <<>> /\ Applied(Last)
     /\ Last.ev \in UpsertEvents /\ Last.user \in Users)
  => /\ Len(subscriptions[Last.user]) = 1
     /\ Record(Last.user).status = Last.ev.status
     /\ Record(Last.user).price_id =
          (IF Last.ev.price = Undef THEN Null ELSE Last.ev.price)
     /\ Record(Last.user).current_period_end =
          (IF Last.ev.period = 0 THEN Null ELSE ToISOString(Last.ev.period))
     /\ profiles[Last.user].plan = DerivedPlan(Last.ev.status)

\* the two requests of the behaviour were deliveries applied to two
\* different users
TwoUsers ==
  /\ Quiet /\ nreq = 2 /\ Len(hist) = 2
  /\ \A i \in 1..2 : Applied(hist[i]) /\ hist[i].user # Null
                       /\ CaseOf(hist[i].ev.type) # "default"
  /\ hist[1].user # hist[2].user

\* C24: deliveries about different users are independent: no step of a
\* delivery applied for one user changes the Subscription Record, the plan
\* or the customer link of another user, and after two deliveries for two
\* different users each user's record and plan are what that user's event
\* alone yields, in every interleaving of their store calls.
C24_UsersIndependent ==
  /\ [](TwoUsers
          => \A i \in 1..2 :
               /\ subscriptions[hist[i].user] = SubscriptionWrite(hist[i].ev, <<>>)
               /\ hist[i].user \in Users
                    => profiles[hist[i].user].plan = PlanWrite(hist[i].ev))
  /\ [][\A p \in Procs :
          (Delivering(p) /\ proc'[p] # proc[p])
          => \A u \in UserIds \ {proc[p].user} :
               /\ subscriptions'[u] = subscriptions[u]
               /\ u \in Users => profiles'[u] = profiles[u]]_vars

\* two deliveries for two users overlapped (the second took the second
\* slot) and both were applied
C24_Witness ==
  /\ TwoUsers
  /\ proc[2].pc = "done" /\ proc[2].kind = "webhook" /\ proc[1].kind = "webhook"
  /\ hist[1].user \in Users /\ hist[2].user \in Users
  /\ Len(subscriptions[hist[1].user]) = 1 /\ Len(subscriptions[hist[2].user]) = 1
  /\ profiles[hist[1].user].plan # profiles[hist[2].user].plan

\* no two requests were ever in flight together
NeverOverlapped == \A q \in Procs : q > 1 => proc[q].pc = "idle"

\* C25: after any subscription event (created, updated or deleted, carrying
\* its status) for a matched user has been applied completely, on its own,
\* the user's plan and Subscription Record status agree (plan 'premium'
\* exactly when status is 'active'), whatever an earlier delivery left,
\* also one that stopped after its first store write.
C25_Reconverges ==
  (Quiet /\ NeverOverlapped /\ hist # <<>> /\ Applied(Last)
     /\ Last.ev \in UpsertEvents \cup DeletedEvents
     /\ Last.user \in Users /\ subscriptions[Last.user] # <<>>)
  => Agree(Last.user)

\* a delivery wrote the user's record with status 'active' and failed to
\* write the plan; the deletion applied after it left the record, which
\* only that delivery can have created, canceled and the plan free
C25_Witness ==
  /\ Quiet /\ NeverOverlapped /\ nreq = 2 /\ Len(hist) = 2
  /\ hist[1].fault # "none" /\ hist[1].user \in Users
  /\ hist[1].ev \in UpsertEvents /\ hist[1].ev.status = "active"
  /\ Applied(hist[2]) /\ hist[2].user = hist[1].user
  /\ hist[2].ev \in DeletedEvents
  /\ Len(subscriptions[Last.user]) = 1
  /\ Record(Last.user).status = "canceled"
  /\ profiles[Last.user].plan = "free"

====
